---- MODULE Spec2Model ----
(***************************************************************************)
(* Spatial evolutionary games on a lattice (game_theory/model.py and       *)
(* game_theory/agent.py): the generation pipeline of RPSModel.step, the    *)
(* agents' score, culling, reproduction, adoption/mutation and commit      *)
(* operations, the biome seeding of biome_boundaries, and the iterated     *)
(* score round of PDAgent.                                                 *)
(*                                                                         *)
(* Numbers.  Payoffs and scores are integers (epsilon is an integer, which *)
(* fixes the unit of the score scale).  Probabilities and the values of    *)
(* random.random() are exact fractions <<n, d>> with d > 0; floating-point *)
(* rounding is not modelled.                                               *)
(*                                                                         *)
(* Names the sources use but do not define (model.game_mode,               *)
(* model.strength_of_adoption, model.strength_of_mutation,                 *)
(* model.num_mutating_agents, agent.reproduce_strong, agent.update_strategy*)
(* agent.exchange, the PD payoff table) belong to parts of the repository  *)
(* that are not among the source files; they are modelled from the         *)
(* specification and marked so in the model map.                           *)
(***************************************************************************)
EXTENDS Integers, Sequences, FiniteSets, TLC

VARIABLES
    cfg,        \* the configuration the model was constructed from (immutable)
    agents,     \* schedule.agents: the sequence of agents, in insertion order
    model,      \* the model's own mutable attributes (step_num, counters, ...)
    pc,         \* position of step(): [phase, i]
    pre,        \* history: the state at the entry of the current step(), and
                \* how many agents have mutated and adopted in it so far
    last,       \* history: what the last agent operation decided
    bio         \* biome seeding: proportions, width, boundaries, column strategies

vars == <<cfg, agents, model, pc, pre, last, bio>>

-----------------------------------------------------------------------------
(* Bounds *)

\* generations one run may execute
MaxStep == 1

\* largest lattice width offered to biome seeding
MaxWidth == 4

\* rounds of the iterated game
MaxRounds == 2

-----------------------------------------------------------------------------
(* Arithmetic on exact fractions <<n, d>>, d > 0 *)

Abs(x) == IF x < 0 THEN -x ELSE x

RECURSIVE GCD(_, _)
GCD(a, b) == IF b = 0 THEN a ELSE GCD(b, a % b)

Frac(n, d) ==
    LET g == GCD(Abs(n), Abs(d))
        s == IF d < 0 THEN -1 ELSE 1
    IN  IF n = 0 THEN <<0, 1>> ELSE <<(s * n) \div g, (s * d) \div g>>

FAdd(a, b) == Frac(a[1] * b[2] + b[1] * a[2], a[2] * b[2])
FSub(a, b) == Frac(a[1] * b[2] - b[1] * a[2], a[2] * b[2])
FMul(a, b) == Frac(a[1] * b[1], a[2] * b[2])
FDiv(a, b) == Frac(a[1] * b[2], a[2] * b[1])
FLeq(a, b) == a[1] * b[2] <= b[1] * a[2]
FLess(a, b) == a[1] * b[2] < b[1] * a[2]
FZero == <<0, 1>>
FOne == <<1, 1>>

RECURSIVE FSum(_)
FSum(v) == IF v = <<>> THEN FZero ELSE FAdd(Head(v), FSum(Tail(v)))

RECURSIVE ISum(_)
ISum(v) == IF v = <<>> THEN 0 ELSE Head(v) + ISum(Tail(v))

\* Python's range(n) as the indices 0..n-1
Range0(n) == 0 .. (n - 1)

\* index (1-based) of the first maximum of a non-empty integer sequence: np.argmax
ArgMaxFirst(v) ==
    CHOOSE k \in 1 .. Len(v) :
        /\ \A m \in 1 .. Len(v) : v[m] <= v[k]
        /\ \A m \in 1 .. (k - 1) : v[m] < v[k]

SeqRange(v) == {v[k] : k \in 1 .. Len(v)}

-----------------------------------------------------------------------------
(* The lattice: SingleGrid(width, height, torus) and its Moore neighbourhood *)

\* offsets <<dx, dy>> in the order the grid enumerates a neighbourhood
\* (dy outermost, the centre left out)
Offsets ==
    << <<-1, -1>>, <<0, -1>>, <<1, -1>>,
       <<-1, 0>>,             <<1, 0>>,
       <<-1, 1>>,  <<0, 1>>,  <<1, 1>> >>

\* the agents are created and scheduled x outermost, y innermost
AgentIndex(c, pos) == pos[1] * c.height + pos[2] + 1

PosOf(c, k) == <<(k - 1) \div c.height, (k - 1) % c.height>>

InBounds(c, p) == p[1] \in Range0(c.width) /\ p[2] \in Range0(c.height)

TorusAdj(c, p) == <<p[1] % c.width, p[2] % c.height>>

\* coordinates of the neighbourhood of pos, each once, in enumeration order
RECURSIVE NeighbourhoodFrom(_, _, _, _)
NeighbourhoodFrom(c, pos, k, seen) ==
    IF k > Len(Offsets) THEN <<>>
    ELSE LET raw == <<pos[1] + Offsets[k][1], pos[2] + Offsets[k][2]>>
             q == IF c.periodic THEN TorusAdj(c, raw) ELSE raw
         IN  IF (~c.periodic /\ ~InBounds(c, raw)) \/ q \in seen
             THEN NeighbourhoodFrom(c, pos, k + 1, seen)
             ELSE <<q>> \o NeighbourhoodFrom(c, pos, k + 1, seen \cup {q})

\* grid.get_neighbors(pos, moore=True) and grid.neighbor_iter(pos): the indices
\* of the neighbouring agents, in order
get_neighbors(c, pos) ==
    LET nb == NeighbourhoodFrom(c, pos, 1, {})
    IN  [k \in 1 .. Len(nb) |-> AgentIndex(c, nb[k])]

-----------------------------------------------------------------------------
(* Payoff tables *)

RPSMoves == {"R", "P", "S", "E"}

\* a payoff table that counts a match against an empty cell as a win
payoff_empty_loses(c, a, b) ==
    CASE a = b -> 0
      [] a # "E" /\ b = "E" -> 1
      [] a = "E" /\ b # "E" -> -c.epsilon
      [] a = "R" /\ b = "P" -> -c.epsilon
      [] a = "R" /\ b = "S" -> 1
      [] a = "P" /\ b = "R" -> 1
      [] a = "P" /\ b = "S" -> -c.epsilon
      [] a = "S" /\ b = "R" -> -c.epsilon
      [] a = "S" /\ b = "P" -> 1

\* RPSModel.payoff, keyed (my_move, other_move)
payoff(c, a, b) ==
    CASE a = "R" /\ b = "R" -> 0
      [] a = "R" /\ b = "P" -> -c.epsilon
      [] a = "R" /\ b = "S" -> 1
      [] a = "R" /\ b = "E" -> 0
      [] a = "P" /\ b = "R" -> 1
      [] a = "P" /\ b = "P" -> 0
      [] a = "P" /\ b = "S" -> -c.epsilon
      [] a = "P" /\ b = "E" -> 0
      [] a = "S" /\ b = "R" -> -c.epsilon
      [] a = "S" /\ b = "P" -> 1
      [] a = "S" /\ b = "S" -> 0
      [] a = "S" /\ b = "E" -> 0
      [] a = "E" /\ b = "R" -> 0
      [] a = "E" /\ b = "P" -> 0
      [] a = "E" /\ b = "S" -> 0
      [] a = "E" /\ b = "E" -> 0

\* the canonical prisoner's-dilemma payoffs (the table itself is not among the
\* source files)
pd_payoff(a, b) ==
    CASE a = "C" /\ b = "C" -> 3
      [] a = "C" /\ b = "D" -> 0
      [] a = "D" /\ b = "C" -> 5
      [] a = "D" /\ b = "D" -> 1

-----------------------------------------------------------------------------
(* Biome seeding *)

FFloor(a) == a[1] \div a[2]

\* index of the first maximum of a non-empty sequence of fractions: np.argmax
FArgMaxFirst(v) ==
    CHOOSE k \in 1 .. Len(v) :
        /\ \A m \in 1 .. Len(v) : FLeq(v[m], v[k])
        /\ \A m \in 1 .. (k - 1) : FLess(v[m], v[k])

\* the while loop of biome_boundaries: hand the missing columns out, one at a
\* time, to the largest remainder
RECURSIVE LargestRemainder(_, _, _)
LargestRemainder(probs_round, remainder, width) ==
    IF ISum(probs_round) < width
    THEN LET index == FArgMaxFirst(remainder)
         IN  LargestRemainder([probs_round EXCEPT ![index] = @ + 1],
                              [remainder EXCEPT ![index] = FZero], width)
    ELSE probs_round

RECURSIVE Insert(_, _)
Insert(x, v) ==
    IF v = <<>> THEN <<x>>
    ELSE IF x <= Head(v) THEN <<x>> \o v ELSE <<Head(v)>> \o Insert(x, Tail(v))

\* list.sort(): ascending
RECURSIVE Sort(_)
Sort(v) == IF v = <<>> THEN <<>> ELSE Insert(Head(v), Sort(Tail(v)))

\* np.cumsum
CumSum(v) == [k \in 1 .. Len(v) |-> ISum(SubSeq(v, 1, k))]

\* the band widths before they are turned into boundaries
BandWidths(initial_population_probabilities, width) ==
    LET exact_split == [k \in 1 .. Len(initial_population_probabilities) |->
                           FMul(initial_population_probabilities[k], <<width, 1>>)]
        probs_round == [k \in 1 .. Len(exact_split) |-> FFloor(exact_split[k])]
        remainder == [k \in 1 .. Len(exact_split) |->
                         FSub(exact_split[k], <<probs_round[k], 1>>)]
    IN  LargestRemainder(probs_round, remainder, width)

biome_boundaries(initial_population_probabilities, width) ==
    LET probs_round == BandWidths(initial_population_probabilities, width)
        sorted == Sort(Append(probs_round, 0))
        cumulative == CumSum(sorted)
    IN  [cumulative EXCEPT ![Len(cumulative)] = @ + 1]

\* GameAgent.__init__, biome branch: the strategy of an agent in column x
\* (the last band that holds x wins; no band leaves the strategy "")
RECURSIVE BiomeStrategy(_, _, _, _)
BiomeStrategy(bb, agent_strategies, x, i) ==
    IF i < 1 THEN ""
    ELSE IF bb[i] <= x /\ x < bb[i + 1] THEN agent_strategies[i]
         ELSE BiomeStrategy(bb, agent_strategies, x, i - 1)

biome_strategy(bb, agent_strategies, x) ==
    BiomeStrategy(bb, agent_strategies, x, Len(bb) - 1)

-----------------------------------------------------------------------------
(* Agents *)

Third == << <<1, 3>>, <<1, 3>>, <<1, 3>>, <<0, 1>> >>

NoScores == <<0, 0, 0, 0, 0, 0, 0, 0>>

\* GameAgent.__init__ before the strategy is seeded.  shared records that
\* new_probabilities and probabilities are one and the same list object.
GameAgent(pos) ==
    [pos |-> pos, scores |-> NoScores, total_score |-> 0,
     move |-> "None", moves |-> <<>>, previous_moves |-> <<>>,
     probabilities |-> Third, new_probabilities |-> Third, shared |-> FALSE,
     strategy |-> "", new_strategy |-> ""]

\* implement_pure_stragies without the branch of "empty"
implement_pure_stragies_no_empty(a) ==
    CASE a.strategy = "all_r" ->
            [a EXCEPT !.probabilities = << <<1, 1>>, <<0, 1>>, <<0, 1>>, <<0, 1>> >>,
                      !.move = "R", !.shared = FALSE]
      [] a.strategy = "all_p" ->
            [a EXCEPT !.probabilities = << <<0, 1>>, <<1, 1>>, <<0, 1>>, <<0, 1>> >>,
                      !.move = "P", !.shared = FALSE]
      [] a.strategy = "all_s" ->
            [a EXCEPT !.probabilities = << <<0, 1>>, <<0, 1>>, <<1, 1>>, <<0, 1>> >>,
                      !.move = "S", !.shared = FALSE]
      [] OTHER -> a

\* RPSAgent.implement_pure_stragies
implement_pure_stragies(a) ==
    CASE a.strategy = "all_r" ->
            [a EXCEPT !.probabilities = << <<1, 1>>, <<0, 1>>, <<0, 1>>, <<0, 1>> >>,
                      !.move = "R", !.shared = FALSE]
      [] a.strategy = "all_p" ->
            [a EXCEPT !.probabilities = << <<0, 1>>, <<1, 1>>, <<0, 1>>, <<0, 1>> >>,
                      !.move = "P", !.shared = FALSE]
      [] a.strategy = "all_s" ->
            [a EXCEPT !.probabilities = << <<0, 1>>, <<0, 1>>, <<1, 1>>, <<0, 1>> >>,
                      !.move = "S", !.shared = FALSE]
      [] a.strategy = "empty" ->
            [a EXCEPT !.probabilities = << <<0, 1>>, <<0, 1>>, <<0, 1>>, <<1, 1>> >>,
                      !.move = "E", !.shared = FALSE]
      [] OTHER -> a

\* PDAgent.implement_strategy; mv is the move np.random.choice draws for "random"
pd_implement_strategy(a, mv) ==
    CASE a.strategy = "all_c" -> [a EXCEPT !.move = "C"]
      [] a.strategy = "all_d" -> [a EXCEPT !.move = "D"]
      [] a.strategy = "random" -> [a EXCEPT !.move = mv]
      [] a.strategy = "tit_for_tat" -> [a EXCEPT !.move = "C"]
      [] a.strategy = "spiteful" -> [a EXCEPT !.move = "D"]
      [] OTHER -> a

\* the sequences np.random.choice(a=agent_moves, size=n, p=probabilities) can
\* return: n independent draws among the moves of positive probability
Support(c, probabilities) ==
    {c.agent_moves[k] : k \in {m \in 1 .. Len(c.agent_moves) :
                                  m <= Len(probabilities) /\ probabilities[m][1] > 0}}

MoveBatches(c, probabilities) ==
    [1 .. c.num_moves_per_set -> Support(c, probabilities)]

\* np.random.choice rejects p of another length than a, and negative entries
ChoiceRaises(c, probabilities) ==
    \/ Len(probabilities) # Len(c.agent_moves)
    \/ \E k \in 1 .. Len(probabilities) : probabilities[k][1] < 0
    \/ FSum(probabilities) # FOne

\* the vectors np.random.dirichlet may return for three moves (a sample; every
\* entry is positive)
DirichletSamples ==
    { << <<1, 2>>, <<1, 4>>, <<1, 4>> >>,
      << <<1, 4>>, <<1, 4>>, <<1, 2>> >> }

-----------------------------------------------------------------------------
(* The agents' operations.  Each takes the agent sequence ags and the index i
   of the agent it runs on, with the random values it draws as parameters. *)

Scores(ags, nbrs) == [k \in 1 .. Len(nbrs) |-> ags[nbrs[k]].total_score]

HasPayoff(a, b) == a \in RPSMoves /\ b \in RPSMoves

\* a match scored from the neighbour's side
match_score_reversed(c, me, other) ==
    IF c.game_mode = "Pure"
    THEN 0 + payoff(c, other.move, me.move)
    ELSE IF c.game_mode = "Impure"
    THEN ISum([m \in 1 .. c.num_moves_per_set |->
                  payoff(c, other.moves[m], me.moves[m])])
    ELSE 0

\* the payoff of one match between me and other (RPSAgent.increment_score,
\* body of the loop over the neighbours)
match_score(c, me, other) ==
    IF c.game_mode = "Pure"
    THEN 0 + payoff(c, me.move, other.move)
    ELSE IF c.game_mode = "Impure"
    THEN ISum([m \in 1 .. c.num_moves_per_set |->
                  payoff(c, me.moves[m], other.moves[m])])
    ELSE 0

MatchRaises(c, me, other) ==
    \/ c.game_mode = "Pure" /\ ~HasPayoff(me.move, other.move)
    \/ c.game_mode = "Impure" /\
           \E m \in 1 .. c.num_moves_per_set :
               \/ m > Len(me.moves) \/ m > Len(other.moves)
               \/ ~HasPayoff(me.moves[m], other.moves[m])

\* increment_score adding each match to the slot instead of writing it
increment_score_accumulating(c, ags, i) ==
    LET me == ags[i]
        nbrs == get_neighbors(c, me.pos)
        scores == [k \in 1 .. 8 |->
                      IF k <= Len(nbrs)
                      THEN me.scores[k] + match_score(c, me, ags[nbrs[k]])
                      ELSE me.scores[k]]
    IN  [agent |-> [me EXCEPT !.scores = scores, !.total_score = ISum(scores)],
         raised |-> FALSE]

\* RPSAgent.increment_score: slot num is written for the num-th neighbour, the
\* slots beyond the neighbours keep their value; a missing payoff key raises
\* and leaves the slots written so far
increment_score(c, ags, i) ==
    LET me == ags[i]
        nbrs == get_neighbors(c, me.pos)
        bad == {k \in 1 .. Len(nbrs) : MatchRaises(c, me, ags[nbrs[k]])}
        stop == IF bad = {} THEN Len(nbrs) + 1
                ELSE CHOOSE k \in bad : \A m \in bad : k <= m
        scores == [k \in 1 .. 8 |->
                      IF k < stop /\ c.game_mode \in {"Pure", "Impure"}
                      THEN match_score(c, me, ags[nbrs[k]])
                      ELSE me.scores[k]]
    IN  IF bad # {}
        THEN [agent |-> [me EXCEPT !.scores = scores], raised |-> TRUE]
        ELSE [agent |-> [me EXCEPT !.scores = scores, !.total_score = ISum(scores)],
              raised |-> FALSE]

\* GameAgent.kill_weak; r is the value of the second random.random()
\* (the first is compared with 0 by <, which never holds)
kill_weak(c, ags, i, r) ==
    LET me == ags[i]
        cull_threshold == c.cull_score
    IN  IF me.total_score < cull_threshold /\ FLeq(r, c.probability_adoption)
        THEN [me EXCEPT !.new_strategy = "empty"]
        ELSE [me EXCEPT !.new_strategy = me.strategy,
                        !.new_probabilities = me.probabilities,
                        !.shared = TRUE]

\* the non-empty neighbours of agent i
neighbours_not_empty(c, ags, i) ==
    {k \in SeqRange(get_neighbors(c, ags[i].pos)) : ags[k].strategy # "empty"}

\* the agents random.shuffle followed by np.argmax can select: every non-empty
\* neighbour of maximal total score
StrongestNotEmpty(c, ags, i) ==
    {k \in neighbours_not_empty(c, ags, i) :
        \A m \in neighbours_not_empty(c, ags, i) :
            ags[m].total_score <= ags[k].total_score}

ReproduceChoices == {"all_r", "all_p", "all_s"}

\* GameAgent.reproduce; strongest_neighbour is the neighbour selected, rand the
\* random value, choice the strategy random.choices draws
reproduce(c, ags, i, strongest_neighbour, rand, choice) ==
    LET me == ags[i]
    IN  IF neighbours_not_empty(c, ags, i) # {}
        THEN IF /\ me.strategy = "empty"
                /\ ags[strongest_neighbour].total_score >= 0
                /\ FLeq(rand, c.probability_adoption)
                /\ ~FLeq(rand, c.probability_mutation)
             THEN [me EXCEPT !.new_strategy = ags[strongest_neighbour].strategy]
             ELSE IF /\ me.strategy = "empty"
                     /\ ags[strongest_neighbour].total_score >= 0
                     /\ FLeq(rand, c.probability_adoption)
                     /\ FLeq(rand, c.probability_mutation)
             THEN [me EXCEPT !.new_strategy = choice]
             ELSE me
        ELSE [me EXCEPT !.new_strategy = me.strategy,
                        !.new_probabilities = me.probabilities,
                        !.shared = TRUE]

\* the neighbour evolve_strategy takes for the strongest: the first of maximal
\* total score among all neighbours, in neighbourhood order
strongest_neighbour(c, ags, i) ==
    LET nbrs == get_neighbors(c, ags[i].pos)
    IN  nbrs[ArgMaxFirst(Scores(ags, nbrs))]

\* the loop of the impure adoption: entry num of new_probabilities becomes
\* i + (j - i) * strength_of_adoption for each j of the neighbour's vector in
\* turn, so the last j is the one that stays
interpolate(c, mine, pending, theirs) ==
    [num \in 1 .. Len(pending) |->
        IF num <= Len(mine) /\ Len(theirs) > 0
        THEN FAdd(mine[num],
                  FMul(FSub(theirs[Len(theirs)], mine[num]), c.strength_of_adoption))
        ELSE pending[num]]

\* GameAgent.evolve_strategy; r1 and r2 are the two random values, choice the
\* strategy random.choice draws, sample the vector np.random.dirichlet returns
evolve_strategy(c, ags, m, i, r1, r2, choice, sample) ==
    LET me == ags[i]
        keep == [me EXCEPT !.new_strategy = me.strategy,
                           !.new_probabilities = me.probabilities,
                           !.shared = TRUE]
        available_strategies == {st \in SeqRange(c.agent_strategies) : st # me.strategy}
        nbrs == get_neighbors(c, me.pos)
    IN  IF FLeq(r1, c.probability_mutation)
        THEN IF c.game_mode = "Pure"
             THEN IF available_strategies = {}
                  THEN [agent |-> me, model |-> m, raised |-> TRUE,
                        branch |-> "mutate", source |-> 0]
                  ELSE [agent |-> [me EXCEPT !.new_strategy = choice], model |-> m,
                        raised |-> FALSE, branch |-> "mutate", source |-> 0]
             ELSE IF c.game_mode = "Impure"
             THEN [agent |-> me, model |-> [m EXCEPT !.new_probabilities = sample],
                   raised |-> FALSE, branch |-> "mutate", source |-> 0]
             ELSE [agent |-> me, model |-> m, raised |-> FALSE,
                   branch |-> "mutate", source |-> 0]
        ELSE IF me.total_score <= c.cull_score /\ FLeq(r2, c.probability_adoption)
        THEN IF Len(nbrs) = 0
             THEN [agent |-> me, model |-> m, raised |-> TRUE, branch |-> "adopt", source |-> 0]
             ELSE LET sn == strongest_neighbour(c, ags, i)
                  IN  IF ags[sn].total_score > me.total_score
                      THEN IF c.game_mode = "Impure"
                           THEN LET v == interpolate(c, me.probabilities,
                                                     me.new_probabilities,
                                                     ags[sn].probabilities)
                                IN  [agent |-> [me EXCEPT
                                        !.new_probabilities = v,
                                        !.probabilities =
                                            IF me.shared THEN v ELSE @],
                                     model |-> m, raised |-> FALSE,
                                     branch |-> "adopt", source |-> sn]
                           ELSE IF c.game_mode = "Pure"
                           THEN [agent |-> [me EXCEPT
                                    !.new_strategy = ags[sn].strategy],
                                 model |-> [m EXCEPT !.num_mutating_agents = @ + 1],
                                 raised |-> FALSE, branch |-> "adopt", source |-> sn]
                           ELSE [agent |-> me, model |-> m, raised |-> FALSE,
                                 branch |-> "adopt", source |-> sn]
                      ELSE [agent |-> keep, model |-> m, raised |-> FALSE,
                            branch |-> "keep", source |-> 0]
        ELSE [agent |-> keep, model |-> m, raised |-> FALSE,
              branch |-> "keep", source |-> 0]

\* the list comprehension of implement_strategy: every entry over the sum
normalise(probabilities) ==
    [k \in 1 .. Len(probabilities) |-> FDiv(probabilities[k], FSum(probabilities))]

\* implement_strategy without the normalisation of the impure vector
implement_strategy_unnormalised(c, ags, i, batch) ==
    LET me == ags[i]
        a1 == [me EXCEPT !.strategy = me.new_strategy,
                         !.probabilities = me.new_probabilities,
                         !.shared = TRUE]
    IN  IF c.game_mode = "Pure"
        THEN [agent |-> implement_pure_stragies(a1), raised |-> FALSE]
        ELSE [agent |-> [a1 EXCEPT !.moves = batch], raised |-> FALSE]

\* RPSAgent.implement_strategy; batch is the move batch np.random.choice draws
implement_strategy(c, ags, i, batch) ==
    LET me == ags[i]
        a1 == [me EXCEPT !.strategy = me.new_strategy,
                         !.probabilities = me.new_probabilities,
                         !.shared = TRUE]
        a2 == [a1 EXCEPT !.probabilities = normalise(a1.probabilities),
                         !.shared = FALSE]
    IN  IF c.game_mode = "Pure"
        THEN [agent |-> implement_pure_stragies(a1), raised |-> FALSE]
        ELSE IF c.game_mode = "Impure"
        THEN IF FSum(a1.probabilities) = FZero
             THEN [agent |-> a1, raised |-> TRUE]
             ELSE IF ChoiceRaises(c, a2.probabilities)
             THEN [agent |-> a2, raised |-> TRUE]
             ELSE [agent |-> [a2 EXCEPT !.moves = batch], raised |-> FALSE]
        ELSE [agent |-> a1, raised |-> FALSE]

\* the batches implement_strategy can draw for agent i
ImplementBatches(c, ags, i) ==
    IF c.game_mode = "Impure" /\ FSum(ags[i].new_probabilities) # FZero
    THEN MoveBatches(c, normalise(ags[i].new_probabilities))
    ELSE {<<>>}

-----------------------------------------------------------------------------
(* Configurations and construction *)

Quarter == <<1, 4>>
Half == <<1, 2>>

\* the values of random.random() the model samples: 0.5 and 0.75.  Against the
\* configured probabilities 0, 1/2 and 1 they give every outcome of a comparison
\* r <= p that has positive probability, the boundary r = p included.
RandomValues == {Half, <<3, 4>>}

BaseConfig ==
    [game_type |-> "RPS", game_mode |-> "Pure",
     width |-> 3, height |-> 1, periodic |-> FALSE,
     epsilon |-> 1, cull_score |-> 0,
     probability_adoption |-> FOne, probability_mutation |-> Half,
     agent_strategies |-> <<"all_r", "all_p", "all_s", "empty">>,
     initial_population_sizes |-> <<Quarter, Quarter, Quarter, Quarter>>,
     biomes |-> FALSE, kill_crowded |-> FALSE,
     agent_moves |-> <<"R", "P", "S", "E">>, num_moves_per_set |-> 1,
     strength_of_adoption |-> Half, strength_of_mutation |-> FOne,
     n |-> MaxStep]

\* both loops of the construction running over the width
lattice_positions_square(c) == [k \in 1 .. (c.width * c.width) |-> PosOf(c, k)]

\* the lattice's positions in the order RPSModel.__init__ creates the agents
lattice_positions(c) == [k \in 1 .. (c.width * c.height) |-> PosOf(c, k)]

\* the strategies np.random.choice(a=agent_strategies, p=initial_population_sizes)
\* can return
SeedStrategies(c) ==
    {c.agent_strategies[k] : k \in {m \in 1 .. Len(c.agent_strategies) :
                                       c.initial_population_sizes[m][1] > 0}}

\* GameAgent.__init__: the agent at pos before its subclass finishes it
seeded_agent(c, pos, drawn) ==
    IF c.game_mode = "Pure"
    THEN IF c.biomes
         THEN [GameAgent(pos) EXCEPT !.strategy =
                  biome_strategy(biome_boundaries(c.initial_population_sizes, c.width),
                                 c.agent_strategies, pos[1])]
         ELSE [GameAgent(pos) EXCEPT !.strategy = drawn]
    ELSE GameAgent(pos)

\* RPSAgent.__init__
RPSAgent(c, pos, drawn, sample, batch) ==
    LET a == seeded_agent(c, pos, drawn)
    IN  IF c.game_mode = "Pure" THEN implement_pure_stragies(a)
        ELSE IF c.game_mode = "Impure"
        THEN [a EXCEPT !.probabilities = sample, !.moves = batch]
        ELSE a

\* PDAgent.__init__
PDAgent(c, pos, drawn, mv) == pd_implement_strategy(seeded_agent(c, pos, drawn), mv)

\* what one agent's construction draws: a seed strategy (Pure), a dirichlet
\* sample and a move batch (Impure), a move (PD, strategy "random")
SeedDraws(c) ==
    IF c.game_type = "PD"
    THEN {[st |-> st, sample |-> <<>>, batch |-> <<>>, mv |-> mv] :
             st \in SeedStrategies(c), mv \in SeqRange(c.agent_moves)}
    ELSE IF c.game_mode = "Impure"
    THEN UNION {{[st |-> "", sample |-> sample, batch |-> batch, mv |-> "None"] :
                    batch \in MoveBatches(c, sample)} : sample \in DirichletSamples}
    ELSE {[st |-> st, sample |-> <<>>, batch |-> <<>>, mv |-> "None"] :
             st \in SeedStrategies(c)}

NewAgent(c, pos, d) ==
    IF c.game_type = "PD" THEN PDAgent(c, pos, d.st, d.mv)
    ELSE RPSAgent(c, pos, d.st, d.sample, d.batch)

\* the schedules RPSModel.__init__ can build: one agent per position
Schedules(c) ==
    LET ps == lattice_positions(c)
    IN  {[k \in 1 .. Len(ps) |-> NewAgent(c, ps[k], f[k])] :
            f \in [1 .. Len(ps) -> SeedDraws(c)]}

\* GameGrid.__init__: the model's counters
InitModel ==
    [step_num |-> 0, num_mutating |-> 0, fraction_mutating |-> FZero,
     num_dead |-> 0, num_dying |-> 0, num_evolving |-> 0,
     fraction_evolving |-> FZero, num_mutating_agents |-> 0,
     new_probabilities |-> <<>>, move_count |-> 0, crowded_players |-> <<>>]

-----------------------------------------------------------------------------
(* RPSModel.step, one agent operation at a time *)

N == Len(agents)

\* the history at the entry of a step(): nothing decided yet
Entry(ags, m) == [agents |-> ags, model |-> m, mutated |-> 0, adopted |-> 0]

Idle == [phase |-> "idle", i |-> 0]

NoOp == [op |-> "none", i |-> 0, branch |-> "none", source |-> 0]

dimension(c) == c.width

Positive(f) == f[1] > 0

\* the next position of a loop over the agents: agent i + 1, or the phase after
Advance(phase, i, after) ==
    IF i < N THEN [phase |-> phase, i |-> i + 1] ELSE [phase |-> after, i |-> 1]

Raised == [phase |-> "raised", i |-> pc.i]

\* entry of step(), called by run(n) while fewer than n generations have run:
\* the generation index and the per-generation counters
StepBegin ==
    /\ pc.phase = "idle"
    /\ model.step_num < cfg.n
    /\ cfg.game_type = "RPS"
    /\ model' = [model EXCEPT
                    !.step_num = @ + 1,
                    !.num_mutating =
                        IF Positive(cfg.probability_mutation) THEN 0 ELSE @,
                    !.num_evolving = 0,
                    !.num_dying = 0]
    /\ pre' = Entry(agents, model)
    /\ pc' = [phase |-> "score", i |-> 1]
    /\ last' = NoOp
    /\ UNCHANGED <<cfg, agents, bio>>

\* for agent in self.schedule.agents: agent.increment_score()
IncrementScore ==
    /\ pc.phase = "score"
    /\ LET r == increment_score(cfg, agents, pc.i)
       IN  /\ agents' = [agents EXCEPT ![pc.i] = r.agent]
           /\ pc' = IF r.raised THEN Raised ELSE Advance("score", pc.i, "kill")
    /\ last' = [NoOp EXCEPT !.op = "increment_score", !.i = pc.i]
    /\ UNCHANGED <<cfg, model, pre, bio>>

\* for agent in self.schedule.agents: agent.kill_weak()
KillWeak ==
    /\ pc.phase = "kill"
    /\ \E r \in RandomValues :
           agents' = [agents EXCEPT ![pc.i] = kill_weak(cfg, agents, pc.i, r)]
    /\ pc' = Advance("kill", pc.i, "reproduce")
    /\ last' = [NoOp EXCEPT !.op = "kill_weak", !.i = pc.i]
    /\ UNCHANGED <<cfg, model, pre, bio>>

\* agent.reproduce_strong(): the reproduction phase (the method of that name is
\* not among the sources; the phase it names is GameAgent.reproduce)
reproduce_strong(c, ags, i, sn, rand, choice) == reproduce(c, ags, i, sn, rand, choice)

\* for agent in self.schedule.agents: agent.reproduce_strong()
ReproduceStrong ==
    /\ pc.phase = "reproduce"
    /\ \E rand \in RandomValues, choice \in ReproduceChoices :
       \E sn \in IF StrongestNotEmpty(cfg, agents, pc.i) = {} THEN {pc.i}
                  ELSE StrongestNotEmpty(cfg, agents, pc.i) :
           agents' = [agents EXCEPT
                         ![pc.i] = reproduce_strong(cfg, agents, pc.i, sn, rand, choice)]
    /\ pc' = Advance("reproduce", pc.i, "update")
    /\ last' = [NoOp EXCEPT !.op = "reproduce", !.i = pc.i]
    /\ UNCHANGED <<cfg, model, pre, bio>>

\* agent.update_strategy(): the adoption/mutation phase (the method of that name
\* is not among the sources; the phase it names is GameAgent.evolve_strategy)
update_strategy(c, ags, m, i, r1, r2, choice, sample) ==
    evolve_strategy(c, ags, m, i, r1, r2, choice, sample)

\* random.choice over every configured strategy, the agent's own included
MutationChoices_unfiltered(c, a) == SeqRange(c.agent_strategies)

\* the strategies random.choice(available_strategies) can return in the
\* mutation branch (the agent's own when the list is empty and the call raises)
MutationChoices(c, a) ==
    IF {st \in SeqRange(c.agent_strategies) : st # a.strategy} = {}
    THEN {a.strategy}
    ELSE {st \in SeqRange(c.agent_strategies) : st # a.strategy}

MutationSamples(c) == IF c.game_mode = "Impure" THEN DirichletSamples ELSE {<<>>}

\* first half of the body of the fourth loop: agent.update_strategy()
UpdateStrategy ==
    /\ pc.phase = "update"
    /\ \E r1 \in RandomValues, r2 \in RandomValues,
          choice \in MutationChoices(cfg, agents[pc.i]),
          sample \in MutationSamples(cfg) :
           LET r == update_strategy(cfg, agents, model, pc.i, r1, r2, choice, sample)
           IN  /\ agents' = [agents EXCEPT ![pc.i] = r.agent]
               /\ model' = r.model
               /\ pc' = IF r.raised THEN Raised
                        ELSE [phase |-> "implement", i |-> pc.i]
               /\ last' = [op |-> "evolve_strategy", i |-> pc.i,
                           branch |-> r.branch, source |-> r.source]
               /\ pre' = [pre EXCEPT
                             !.mutated = IF ~r.raised /\ r.branch = "mutate"
                                         THEN @ + 1 ELSE @,
                             !.adopted = IF ~r.raised /\ r.branch = "adopt"
                                         THEN @ + 1 ELSE @]
    /\ UNCHANGED <<cfg, bio>>

\* second half of the body of the fourth loop: agent.implement_strategy()
ImplementStrategy ==
    /\ pc.phase = "implement"
    /\ \E batch \in ImplementBatches(cfg, agents, pc.i) :
           LET r == implement_strategy(cfg, agents, pc.i, batch)
           IN  /\ agents' = [agents EXCEPT ![pc.i] = r.agent]
               /\ pc' = IF r.raised THEN Raised
                        ELSE Advance("update", pc.i, "end")
    /\ last' = [NoOp EXCEPT !.op = "implement_strategy", !.i = pc.i]
    /\ UNCHANGED <<cfg, model, pre, bio>>

\* agent.exchange(): the method is not among the sources and the phase list of
\* the specification has no such phase; it changes nothing here
exchange(c, ags, i) == ags[i]

\* the rest of step(): the exchange loop, the crowding pass over
\* self.crowded_players (a list nothing fills), the collectors and the fractions
StepEnd ==
    /\ pc.phase = "end"
    /\ agents' = [k \in 1 .. N |->
                      IF cfg.kill_crowded /\ k \in SeqRange(model.crowded_players)
                      THEN [exchange(cfg, agents, k) EXCEPT !.strategy = "empty"]
                      ELSE exchange(cfg, agents, k)]
    /\ model' = [model EXCEPT
                    !.fraction_evolving =
                        Frac(model.num_evolving, dimension(cfg) * dimension(cfg)),
                    !.fraction_mutating =
                        IF Positive(cfg.probability_mutation)
                        THEN Frac(model.num_mutating, dimension(cfg) * dimension(cfg))
                        ELSE @]
    /\ pc' = Idle
    /\ last' = NoOp
    /\ pre' = [Entry(agents', model') EXCEPT !.mutated = pre.mutated,
                                             !.adopted = pre.adopted]
    /\ UNCHANGED <<cfg, bio>>

NoBio == [phase |-> "none"]

\* Pure mode with mutation: rock and paper cells are seeded
PureMutating ==
    [BaseConfig EXCEPT
        !.initial_population_sizes = <<Half, Half, FZero, FZero>>]

\* scenario B: no mutation, certain adoption, a cull score above every score
ScenarioB ==
    [BaseConfig EXCEPT
        !.probability_mutation = FZero, !.cull_score = 9,
        !.initial_population_sizes = <<Half, Half, FZero, FZero>>]

\* a strategy set without scissors
NoScissors ==
    [BaseConfig EXCEPT
        !.agent_strategies = <<"all_r", "all_p", "empty">>,
        !.initial_population_sizes = <<Half, FZero, Half>>,
        !.kill_crowded = TRUE]

\* Impure mode on two cells, three moves
ImpureTwo ==
    [BaseConfig EXCEPT
        !.game_mode = "Impure", !.width = 2,
        !.agent_moves = <<"R", "P", "S">>,
        !.probability_adoption = Half]

\* a cull score that a losing agent's total score can equal, run for a single
\* generation
Threshold ==
    [PureMutating EXCEPT !.cull_score = -1, !.n = 1]

\* a bounded lattice of one cell: its agent has no neighbour
Solitary ==
    [PureMutating EXCEPT !.width = 1]

Configs == {PureMutating, ScenarioB, NoScissors, ImpureTwo, Threshold, Solitary}

Init ==
    /\ cfg \in Configs
    /\ agents \in Schedules(cfg)
    /\ model = InitModel
    /\ pc = Idle
    /\ pre = Entry(agents, model)
    /\ last = NoOp
    /\ bio = NoBio

Next ==
    \/ StepBegin
    \/ IncrementScore
    \/ KillWeak
    \/ ReproduceStrong
    \/ UpdateStrategy
    \/ ImplementStrategy
    \/ StepEnd

Spec == Init /\ [][Next]_vars

-----------------------------------------------------------------------------
(* Culling over two generations *)

\* Impure mode on two cells without mutation, run for one generation more
ImpureCull ==
    [ImpureTwo EXCEPT !.probability_mutation = FZero, !.n = MaxStep + 1]

\* Pure mode without mutation, run for one generation more
PureCull ==
    [ScenarioB EXCEPT !.cull_score = 0, !.n = MaxStep + 1]

CullConfigs == {ImpureCull, PureCull}

CullInit ==
    /\ cfg \in CullConfigs
    /\ agents \in Schedules(cfg)
    /\ model = InitModel
    /\ pc = Idle
    /\ pre = Entry(agents, model)
    /\ last = NoOp
    /\ bio = NoBio

SpecCull == CullInit /\ [][Next]_vars

-----------------------------------------------------------------------------
(* The score phase on its own: RPS agents in both modes and PD agents *)

PDMoves == {"C", "D"}

\* PDAgent.play_reactive_strategy: the move against neighbour other; "raise"
\* stands for the IndexError of previous_moves[-1] on an empty history
play_reactive_strategy(me, move_count, other) ==
    IF me.strategy = "tit_for_tat"
    THEN IF move_count = 0 THEN "C"
         ELSE IF other.previous_moves = <<>> THEN "raise"
         ELSE other.previous_moves[Len(other.previous_moves)]
    ELSE IF me.strategy = "spiteful"
    THEN IF "D" \in SeqRange(other.previous_moves) THEN "D" ELSE "C"
    ELSE me.move

\* the loop of PDAgent.increment_score from neighbour k on
RECURSIVE pd_score_from(_, _, _, _, _)
pd_score_from(ags, me, nbrs, k, move_count) ==
    IF k > Len(nbrs) THEN [agent |-> me, raised |-> FALSE]
    ELSE LET other == ags[nbrs[k]]
             mv == play_reactive_strategy(me, move_count, other)
         IN  IF mv = "raise" THEN [agent |-> me, raised |-> TRUE]
             ELSE IF mv \notin PDMoves \/ other.move \notin PDMoves
             THEN [agent |-> [me EXCEPT !.move = mv], raised |-> TRUE]
             ELSE pd_score_from(ags,
                      [me EXCEPT !.move = mv,
                                 !.scores[k] = @ + pd_payoff(mv, other.move)],
                      nbrs, k + 1, move_count)

\* PDAgent.increment_score(move_count)
pd_increment_score(c, ags, i, move_count) ==
    LET r == pd_score_from(ags, ags[i], get_neighbors(c, ags[i].pos), 1, move_count)
    IN  IF r.raised THEN r
        ELSE [agent |-> [r.agent EXCEPT !.total_score = ISum(r.agent.scores)],
              raised |-> FALSE]

\* scenario A: a 3 x 3 periodic lattice seeded with rock and paper
ScenarioA ==
    [BaseConfig EXCEPT
        !.width = 3, !.height = 3, !.periodic = TRUE, !.epsilon = 2,
        !.initial_population_sizes = <<Half, Half, FZero, FZero>>]

\* Impure mode on three cells, two moves per set
ImpureThree ==
    [BaseConfig EXCEPT
        !.game_mode = "Impure", !.agent_moves = <<"R", "P", "S">>,
        !.num_moves_per_set = 2]

\* the prisoner's dilemma on three cells
Prisoners ==
    [BaseConfig EXCEPT
        !.game_type = "PD",
        !.agent_strategies = <<"all_c", "all_d", "tit_for_tat", "spiteful">>,
        !.agent_moves = <<"C", "D">>]

ScoreConfigs == {ScenarioA, ImpureThree, Prisoners}

ScoreInit ==
    /\ cfg \in ScoreConfigs
    /\ agents \in Schedules(cfg)
    /\ model = InitModel
    /\ pc = [phase |-> "score", i |-> 1]
    /\ pre = Entry(agents, model)
    /\ last = NoOp
    /\ bio = NoBio

\* one agent's turn in a score phase; when the last agent has scored, the phase
\* is over and the next one starts from the state it left
ScoreAgent ==
    /\ pc.phase = "score"
    /\ model.move_count < MaxRounds
    /\ LET r == IF cfg.game_type = "PD"
                THEN pd_increment_score(cfg, agents, pc.i, model.move_count)
                ELSE increment_score(cfg, agents, pc.i)
       IN  /\ agents' = [agents EXCEPT ![pc.i] = r.agent]
           /\ pc' = IF r.raised THEN Raised
                    ELSE IF pc.i < N THEN [pc EXCEPT !.i = @ + 1]
                    ELSE [pc EXCEPT !.i = 1]
           /\ model' = IF ~r.raised /\ pc.i = N
                       THEN [model EXCEPT !.move_count = @ + 1] ELSE model
           /\ pre' = IF pc.i = 1 THEN Entry(agents, model) ELSE pre
    /\ last' = [NoOp EXCEPT !.op = "increment_score", !.i = pc.i]
    /\ UNCHANGED <<cfg, bio>>

ScoreNext == ScoreAgent

SpecScore == ScoreInit /\ [][ScoreNext]_vars

-----------------------------------------------------------------------------
(* Biome seeding on its own *)

\* the proportions offered to a configuration
Proportions == {FZero, Quarter, <<1, 3>>, Half, <<2, 3>>, <<3, 4>>, FOne}

BiomeStrategies == <<"all_r", "all_p", "all_s">>

\* config['biomes'] on and off
BiomeConfigs == {BaseConfig, [BaseConfig EXCEPT !.biomes = TRUE]}

BiomeInit ==
    /\ cfg \in BiomeConfigs
    /\ agents = <<>>
    /\ model = InitModel
    /\ pc = Idle
    /\ pre = Entry(<<>>, InitModel)
    /\ last = NoOp
    /\ \E p1 \in Proportions, p2 \in Proportions, p3 \in Proportions,
          width \in 1 .. MaxWidth :
           bio = [phase |-> "config",
                  initial_population_sizes |-> <<p1, p2, p3>>,
                  width |-> width,
                  biome_boundaries |-> <<>>,
                  columns |-> <<>>]

\* GameGrid.__init__: self.biome_boundaries = biome_boundaries(...)
ComputeBoundaries ==
    /\ bio.phase = "config"
    /\ cfg.biomes
    /\ bio' = [bio EXCEPT
                  !.phase = "bounded",
                  !.biome_boundaries =
                      biome_boundaries(bio.initial_population_sizes, bio.width)]
    /\ UNCHANGED <<cfg, agents, model, pc, pre, last>>

\* RPSModel.__init__: the agents of every column x take their strategy;
\* columns[x + 1] is the strategy of column x
SeedColumns ==
    /\ bio.phase = "bounded"
    /\ bio' = [bio EXCEPT
                  !.phase = "seeded",
                  !.columns = [k \in 1 .. bio.width |->
                                  biome_strategy(bio.biome_boundaries,
                                                 BiomeStrategies, k - 1)]]
    /\ UNCHANGED <<cfg, agents, model, pc, pre, last>>

\* np.random.choice(a, p=p) raises ValueError when p has another length than a,
\* holds a negative entry or does not sum to 1
SeedChoiceRaises(a, p) ==
    \/ Len(p) # Len(a)
    \/ \E k \in 1 .. Len(p) : p[k][1] < 0
    \/ FSum(p) # FOne

\* the strategies np.random.choice(a, p=p) can return
SeedSupport(a, p) == {a[k] : k \in {m \in 1 .. Len(a) : p[m][1] > 0}}

\* RPSModel.__init__ without biomes: the agent of every column draws its
\* strategy; the first draw raises when the proportions are no distribution,
\* and the construction is abandoned
SeedRandom ==
    /\ bio.phase = "config"
    /\ ~cfg.biomes
    /\ IF SeedChoiceRaises(BiomeStrategies, bio.initial_population_sizes)
       THEN bio' = [bio EXCEPT !.phase = "rejected"]
       ELSE \E f \in [1 .. bio.width ->
                         SeedSupport(BiomeStrategies, bio.initial_population_sizes)] :
                bio' = [bio EXCEPT !.phase = "drawn", !.columns = f]
    /\ UNCHANGED <<cfg, agents, model, pc, pre, last>>

BiomeNext == ComputeBoundaries \/ SeedColumns \/ SeedRandom

SpecBiome == BiomeInit /\ [][BiomeNext]_vars

-----------------------------------------------------------------------------
(* Properties of the generation pipeline (Spec) *)

Pure == cfg.game_mode = "Pure"
Impure == cfg.game_mode = "Impure"

NeighboursAllEmpty(c, ags, k) ==
    \A m \in SeqRange(get_neighbors(c, ags[k].pos)) : ags[m].strategy = "empty"

\* GameGrid.count_populations
RECURSIVE count_populations(_, _)
count_populations(ags, agent_strategy) ==
    IF ags = <<>> THEN 0
    ELSE (IF Head(ags).strategy = agent_strategy THEN 1 ELSE 0)
         + count_populations(Tail(ags), agent_strategy)

RECURSIVE SumOver(_, _)
SumOver(S, ags) ==
    IF S = {} THEN 0
    ELSE LET x == CHOOSE y \in S : TRUE
         IN  count_populations(ags, x) + SumOver(S \ {x}, ags)

\* C1: commit barrier.  While the culling and reproduction loops run no agent
\* has committed, and an agent that adopts from its strongest neighbour computes
\* its pending strategy (Pure) or pending probability vector (Impure) from that
\* neighbour's strategy and vector as they were at the entry of step().
C1_CommitBarrier ==
    /\ pc.phase \in {"kill", "reproduce"} =>
           \A k \in 1 .. N :
               /\ agents[k].strategy = pre.agents[k].strategy
               /\ agents[k].probabilities = pre.agents[k].probabilities
    /\ (pc.phase = "implement" /\ last.op = "evolve_strategy" /\ last.branch = "adopt") =>
           /\ Pure => agents[last.i].new_strategy = pre.agents[last.source].strategy
           /\ Impure => agents[last.i].new_probabilities =
                            interpolate(cfg, pre.agents[last.i].probabilities,
                                        agents[last.i].new_probabilities,
                                        pre.agents[last.source].probabilities)

\* C2: scenario B.  With probability_mutation = 0, probability_adoption = 1 and
\* every total score below cull_score, every agent has strategy "empty" when the
\* first step() has returned.
C2_ScenarioBAllEmpty ==
    (/\ pc.phase = "idle" /\ model.step_num = 1
     /\ cfg.probability_mutation = FZero /\ cfg.probability_adoption = FOne
     /\ \A k \in 1 .. N : agents[k].total_score < cfg.cull_score)
    => \A k \in 1 .. N : agents[k].strategy = "empty"

\* C3: an agent that was "empty" with only "empty" neighbours at the entry of
\* step() is "empty" when every agent of the generation has committed.
C3_EmptyStaysEmpty ==
    pc.phase = "end" =>
        \A k \in 1 .. N :
            (pre.agents[k].strategy = "empty" /\ NeighboursAllEmpty(cfg, pre.agents, k))
            => agents[k].strategy = "empty"

\* C4: when reproduction has given an "empty" agent a pending strategy other than
\* "empty", that strategy is the strategy of a non-empty neighbour of maximal
\* total score, that score being >= 0, or a configured strategy other than
\* "empty".
C4_ReproductionSource ==
    (/\ last.op = "reproduce"
     /\ agents[last.i].strategy = "empty"
     /\ agents[last.i].new_strategy # "empty")
    => \/ \E k \in StrongestNotEmpty(cfg, agents, last.i) :
              /\ agents[k].total_score >= 0
              /\ agents[k].strategy = agents[last.i].new_strategy
       \/ agents[last.i].new_strategy \in SeqRange(cfg.agent_strategies) \ {"empty"}

ValidDistribution(v) ==
    /\ \A k \in 1 .. Len(v) : v[k][1] >= 0
    /\ FSum(v) = FOne

\* the agents whose commit of the current generation has returned
Committed ==
    CASE pc.phase \in {"update", "implement"} -> 1 .. (pc.i - 1)
      [] pc.phase = "raised" /\ last.op \in {"evolve_strategy", "implement_strategy"} ->
            1 .. (pc.i - 1)
      [] pc.phase = "end" -> 1 .. N
      [] pc.phase = "idle" /\ model.step_num > 0 -> 1 .. N
      [] OTHER -> {}

\* C5: after its commit an agent's active probability vector has no negative
\* entry and sums to 1, in Pure and in Impure mode.
C5_CommittedDistribution ==
    \A k \in Committed : ValidDistribution(agents[k].probabilities)

\* an Impure agent has committed a vector that adoption had left with a sum
\* other than 1
C5_Witness ==
    /\ Impure /\ pc.phase = "end"
    /\ \E k \in Committed :
           /\ FSum(agents[k].new_probabilities) # FOne
           /\ agents[k].probabilities = normalise(agents[k].new_probabilities)

\* C6: the agents with strategy "empty" and the agents with any other strategy
\* are width * height together, at construction and in every later state.
C6_CellCount ==
    count_populations(agents, "empty")
      + SumOver({agents[k].strategy : k \in 1 .. N} \ {"empty"}, agents)
    = cfg.width * cfg.height

\* a step has returned on a lattice that holds empty and non-empty agents
C6_Witness ==
    /\ pc.phase = "idle" /\ model.step_num > 0
    /\ count_populations(agents, "empty") > 0
    /\ count_populations(agents, "empty") < N

\* C9: step atomicity.  When step() has raised, the generation index, the
\* counters and every agent are as they were at its entry.
C9_StepAtomic ==
    pc.phase = "raised" => (agents = pre.agents /\ model = pre.model)

\* the slots of agent k that face a neighbour whose move, or whose own move, is E
EmptySlots(k) ==
    LET nbrs == get_neighbors(cfg, agents[k].pos)
    IN  {sl \in 1 .. Len(nbrs) :
            agents[k].move = "E" \/ agents[nbrs[sl]].move = "E"}

\* C13: the RPS payoff table gives an integer for every ordered pair of moves
\* of {R, P, S, E} and 0 for every pair that holds E; a score phase in Pure
\* mode never misses a key and writes 0 into every slot of a match with E.
C13_PayoffTotal ==
    /\ \A a \in RPSMoves, b \in RPSMoves : payoff(cfg, a, b) \in Int
    /\ \A a \in RPSMoves : payoff(cfg, a, "E") = 0 /\ payoff(cfg, "E", a) = 0
    /\ (Pure /\ last.op = "increment_score") =>
           /\ pc.phase # "raised"
           /\ \A sl \in EmptySlots(last.i) : agents[last.i].scores[sl] = 0

\* a rock or paper agent has been scored against an empty neighbour
C13_Witness ==
    /\ Pure /\ last.op = "increment_score"
    /\ agents[last.i].move \in {"R", "P"}
    /\ \E sl \in EmptySlots(last.i) : TRUE

\* C14: frame of the culling, reproduction and adoption/mutation operations.
\* A step of one of these phases leaves every agent's active strategy and
\* active probability vector as they were, and changes no agent but the one
\* it runs on.
C14_PhaseFrame ==
    [][pc.phase \in {"kill", "reproduce", "update"} =>
          \A k \in 1 .. N :
              /\ agents'[k].strategy = agents[k].strategy
              /\ agents'[k].probabilities = agents[k].probabilities
              /\ k # pc.i => agents'[k] = agents[k]]_vars

\* the agent whose turn it is adopts if its draws take it to the adoption
\* branch: it is at or below the cull score and its strongest neighbour, by
\* the code's selection and by the claim's, has a higher total score
AdoptionDue ==
    /\ pc.phase = "update"
    /\ StrongestNotEmpty(cfg, agents, pc.i) # {}
    /\ agents[pc.i].total_score <= cfg.cull_score
    /\ agents[strongest_neighbour(cfg, agents, pc.i)].total_score
           > agents[pc.i].total_score
    /\ \A k \in StrongestNotEmpty(cfg, agents, pc.i) :
           agents[k].total_score > agents[pc.i].total_score

\* the adoption branch has just run for agent last.i
Adopted ==
    /\ pc.phase = "implement"
    /\ last.op = "evolve_strategy" /\ last.branch = "adopt"

\* C15: the neighbours adoption can select as the strongest are exactly the
\* non-empty neighbours of maximal total score, every tied one among them; the
\* neighbour adopted from is not "empty" and the strategy adopted is not
\* "empty".
C15_StrongestNonEmpty ==
    /\ AdoptionDue =>
           {strongest_neighbour(cfg, agents, pc.i)} = StrongestNotEmpty(cfg, agents, pc.i)
    /\ Adopted =>
           /\ agents[last.source].strategy # "empty"
           /\ Pure => agents[last.i].new_strategy # "empty"

\* the adoption/mutation operation has just returned for agent last.i without
\* taking the mutation branch
NotMutated ==
    /\ pc.phase = "implement"
    /\ last.op = "evolve_strategy" /\ last.branch # "mutate"

\* C16: an agent whose total score is not below the cull score and that did
\* not mutate leaves the adoption/mutation phase with its pending strategy and
\* pending probability vector equal to its active ones.
C16_AdoptionThreshold ==
    (NotMutated /\ agents[last.i].total_score >= cfg.cull_score) =>
        /\ agents[last.i].new_strategy = agents[last.i].strategy
        /\ agents[last.i].new_probabilities = agents[last.i].probabilities

\* C17: after an Impure adoption, component k of the pending vector is
\* p_k + (q_k - p_k) * strength_of_adoption, p the agent's vector before the
\* operation and q the vector of the neighbour adopted from.
C17_ComponentWise ==
    (Adopted /\ Impure) =>
        LET p == pre.agents[last.i].probabilities
            q == agents[last.source].probabilities
        IN  \A k \in 1 .. Len(p) :
                agents[last.i].new_probabilities[k] =
                    FAdd(p[k], FMul(FSub(q[k], p[k]), cfg.strength_of_adoption))

\* the mutation branch has just run for the Impure agent pc.i;
\* model.new_probabilities holds the vector it resampled
ImpureMutated ==
    /\ Impure /\ pc.phase = "implement"
    /\ last.op = "evolve_strategy" /\ last.branch = "mutate"

\* C18: when an Impure agent has taken the mutation branch, the resampled
\* vector is its pending probability vector, its commit does not raise, and
\* the commit installs the resampled vector, normalised, as its active vector.
C18_MutationTakesEffect ==
    [][ImpureMutated =>
          /\ agents[pc.i].new_probabilities = model.new_probabilities
          /\ pc'.phase # "raised"
          /\ agents'[pc.i].probabilities = normalise(model.new_probabilities)]_vars

\* C19: when every neighbour of an agent is "empty", or it has none, its
\* reproduction and its adoption (the adoption/mutation operation outside the
\* mutation branch) return without raising and leave its pending strategy
\* equal to its active strategy.
C19_NoSourceNoChange ==
    (/\ \/ last.op = "reproduce"
        \/ last.op = "evolve_strategy" /\ last.branch # "mutate"
     /\ NeighboursAllEmpty(cfg, agents, last.i)) =>
        /\ pc.phase # "raised"
        /\ agents[last.i].new_strategy = agents[last.i].strategy

\* C21: when step() has returned, fraction_mutating is the number of agents
\* that took the mutation branch in this generation over width * height, and
\* fraction_evolving the number that took the adoption branch over
\* width * height.
C21_FractionsReported ==
    (pc.phase = "idle" /\ model.step_num > 0) =>
        /\ model.fraction_mutating = Frac(pre.mutated, cfg.width * cfg.height)
        /\ model.fraction_evolving = Frac(pre.adopted, cfg.width * cfg.height)

\* the mutation branch has just returned for the Pure agent last.i
PureMutated ==
    /\ Pure /\ pc.phase = "implement"
    /\ last.op = "evolve_strategy" /\ last.branch = "mutate"

\* C22: when a Pure agent has taken the mutation branch its pending strategy
\* is a configured strategy other than its current one; and the strategies the
\* mutation of the agent whose turn it is can draw are all the configured
\* strategies other than its current one.
C22_PureMutation ==
    /\ PureMutated =>
           /\ agents[last.i].new_strategy \in SeqRange(cfg.agent_strategies)
           /\ agents[last.i].new_strategy # agents[last.i].strategy
    /\ (Pure /\ pc.phase = "update") =>
           MutationChoices(cfg, agents[pc.i])
             = SeqRange(cfg.agent_strategies) \ {agents[pc.i].strategy}

\* a non-empty Pure agent has mutated to "empty"
C22_Witness ==
    /\ PureMutated
    /\ agents[last.i].new_strategy = "empty"
    /\ agents[last.i].strategy # "empty"

\* the slots of agent k that face a neighbour whose strategy is "empty"
SlotsFacingEmpty(k) ==
    LET nbrs == get_neighbors(cfg, agents[k].pos)
    IN  {sl \in 1 .. Len(nbrs) : agents[nbrs[sl]].strategy = "empty"}

\* C23: empty agents are inert.  When step() has returned, every agent whose
\* strategy is "empty" holds the move E for the next score phase (Pure: its
\* move; Impure: every move of its batch); and a score operation leaves an
\* "empty" agent with total score 0 and writes 0 into every slot that faces an
\* "empty" neighbour.
C23_EmptyInert ==
    /\ (pc.phase = "idle" /\ model.step_num > 0) =>
           \A k \in 1 .. N :
               agents[k].strategy = "empty" =>
                   /\ Pure => agents[k].move = "E"
                   /\ Impure => \A m \in 1 .. Len(agents[k].moves) :
                                    agents[k].moves[m] = "E"
    /\ (last.op = "increment_score" /\ pc.phase # "raised") =>
           /\ agents[last.i].strategy = "empty" => agents[last.i].total_score = 0
           /\ \A sl \in SlotsFacingEmpty(last.i) : agents[last.i].scores[sl] = 0

\* the move and the probability vector that belong to a pure strategy
PureMoveOf(st) ==
    CASE st = "all_r" -> "R" [] st = "all_p" -> "P"
      [] st = "all_s" -> "S" [] st = "empty" -> "E"

PureVectorOf(st) ==
    [k \in 1 .. 4 |->
        IF <<k, st>> \in {<<1, "all_r">>, <<2, "all_p">>, <<3, "all_s">>, <<4, "empty">>}
        THEN FOne ELSE FZero]

\* C24: in Pure mode, after the construction and whenever step() has returned,
\* every agent has one of the strategies all_r, all_p, all_s, empty, and its
\* move and probability vector are the ones of that strategy.
C24_PureConsistent ==
    (Pure /\ pc.phase = "idle") =>
        \A k \in 1 .. N :
            /\ agents[k].strategy \in {"all_r", "all_p", "all_s", "empty"}
            /\ agents[k].move = PureMoveOf(agents[k].strategy)
            /\ agents[k].probabilities = PureVectorOf(agents[k].strategy)

\* a step has returned on a lattice seeded without empty cells, and an agent
\* has committed "empty" in it
C24_Witness ==
    /\ cfg = PureMutating /\ pc.phase = "idle" /\ model.step_num > 0
    /\ \E k \in 1 .. N : agents[k].strategy = "empty"

-----------------------------------------------------------------------------
(* Properties of the score phase (SpecScore) *)

\* a score phase has just ended and at least n phases have run
PhasesDone(n) == pc.phase = "score" /\ pc.i = 1 /\ model.move_count >= n

SameScores ==
    \A k \in 1 .. N :
        /\ agents[k].scores = pre.agents[k].scores
        /\ agents[k].total_score = pre.agents[k].total_score

Centre == AgentIndex(cfg, <<1, 1>>)

IsScenarioA ==
    /\ cfg.width = 3 /\ cfg.height = 3 /\ cfg.periodic /\ Pure
    /\ cfg.game_type = "RPS"
    /\ \A k \in 1 .. N :
           agents[k].strategy = IF k = Centre THEN "all_p" ELSE "all_r"

\* C8: after a score phase in Pure mode every total score is the sum of the
\* agent's slots and slot k holds payoff(own move, move of the k-th neighbour);
\* in scenario A the centre has eight slots of 1 and a total of 8, and the slot
\* of every rock agent that faces the centre holds -epsilon.
C8_ScorePhase ==
    (PhasesDone(1) /\ cfg.game_type = "RPS" /\ Pure) =>
        /\ \A k \in 1 .. N :
               LET nbrs == get_neighbors(cfg, agents[k].pos)
               IN  /\ agents[k].total_score = ISum(agents[k].scores)
                   /\ \A sl \in 1 .. Len(nbrs) :
                          agents[k].scores[sl] =
                              payoff(cfg, agents[k].move, agents[nbrs[sl]].move)
        /\ IsScenarioA =>
               /\ agents[Centre].total_score = 8
               /\ agents[Centre].scores = <<1, 1, 1, 1, 1, 1, 1, 1>>
               /\ \A k \in (1 .. N) \ {Centre} :
                      LET nbrs == get_neighbors(cfg, agents[k].pos)
                      IN  /\ Len(nbrs) = 8
                          /\ \E sl \in 1 .. 8 : nbrs[sl] = Centre
                          /\ \A sl \in 1 .. 8 :
                                 nbrs[sl] = Centre =>
                                     agents[k].scores[sl] = -cfg.epsilon

\* scenario A has been scored
C8_Witness == PhasesDone(1) /\ IsScenarioA

\* the round (the move_count) of the score operation that has just run
RoundOfLast ==
    IF pc.phase # "raised" /\ last.i = N THEN model.move_count - 1
    ELSE model.move_count

\* the move the reactive strategy st owes, in round t, to a neighbour that
\* plays mv in every round
ReactiveMove(st, t, mv) ==
    IF st = "tit_for_tat" THEN (IF t = 0 THEN "C" ELSE mv)
    ELSE IF t > 0 /\ mv = "D" THEN "D" ELSE "C"

\* C20: a score round of the iterated game does not raise; against a neighbour
\* that always cooperates or always defects, a tit_for_tat agent plays C in
\* round 0 and the neighbour's previous move afterwards, a spiteful agent
\* plays D once the neighbour has defected and C before, and the round adds
\* the payoff of these two moves to the neighbour's slot.
C20_ReactiveHistory ==
    (cfg.game_type = "PD" /\ last.op = "increment_score") =>
        /\ pc.phase # "raised"
        /\ agents[last.i].strategy \in {"tit_for_tat", "spiteful"} =>
               LET nbrs == get_neighbors(cfg, agents[last.i].pos)
               IN  \A sl \in 1 .. Len(nbrs) :
                       agents[nbrs[sl]].strategy \in {"all_c", "all_d"} =>
                           agents[last.i].scores[sl] - pre.agents[last.i].scores[sl]
                             = pd_payoff(ReactiveMove(agents[last.i].strategy,
                                                      RoundOfLast,
                                                      agents[nbrs[sl]].move),
                                         agents[nbrs[sl]].move)

-----------------------------------------------------------------------------
(* Properties of biome seeding (SpecBiome) *)

SumsToOne == FSum(bio.initial_population_sizes) = FOne

\* the number of columns seeded with the i-th strategy
BandWidth(i) ==
    Cardinality({x \in 1 .. bio.width : bio.columns[x] = BiomeStrategies[i]})

\* C10: when the proportions sum to 1, the band of strategy i is
\* floor(p_i * width) or floor(p_i * width) + 1 columns wide.
C10_BandMatchesProportion ==
    (bio.phase = "seeded" /\ SumsToOne) =>
        \A i \in 1 .. Len(bio.initial_population_sizes) :
            LET f == FFloor(FMul(bio.initial_population_sizes[i], <<bio.width, 1>>))
            IN  BandWidth(i) \in {f, f + 1}

\* the bands of the boundaries: band i holds the columns x with
\* biome_boundaries[i] <= x < biome_boundaries[i + 1]
BandsOf(x) ==
    {i \in 1 .. (Len(bio.biome_boundaries) - 1) :
        bio.biome_boundaries[i] <= x /\ x < bio.biome_boundaries[i + 1]}

\* C11: when the proportions sum to 1, the differences of consecutive
\* boundaries sum to the lattice width, every column 0 .. width - 1 lies in
\* exactly one band, and every column is seeded with a configured strategy.
C11_BandsSumToWidth ==
    (bio.phase \in {"bounded", "seeded"} /\ SumsToOne) =>
        /\ ISum([i \in 1 .. (Len(bio.biome_boundaries) - 1) |->
                    bio.biome_boundaries[i + 1] - bio.biome_boundaries[i]])
             = bio.width
        /\ \A x \in Range0(bio.width) : Cardinality(BandsOf(x)) = 1
        /\ bio.phase = "seeded" =>
               \A x \in 1 .. bio.width : bio.columns[x] \in SeqRange(BiomeStrategies)

\* C12: a configuration whose proportions do not sum to 1 is rejected: no
\* boundaries are computed and no column is seeded for it, with biome seeding
\* and with uniform-random seeding.
C12_RejectsBadProportions ==
    /\ bio.phase \in {"bounded", "seeded", "drawn"} => SumsToOne
    /\ (bio.phase \notin {"none", "config"} /\ ~SumsToOne) => bio.phase = "rejected"

====
